---- MODULE Spec2Model ----
(***************************************************************************)
(* The user table of the Mitigata dashboard: the record store, the filter, *)
(* sort and pagination pipeline and the event handlers of                  *)
(* src/src/components/Table.tsx (the paged table) and of the progressive   *)
(* loading table in src/unnamed/part_000 (lines 105-589).                  *)
(*                                                                         *)
(* A JavaScript string is a sequence of one-character strings, a number    *)
(* that may be NaN is NaN (<<>>) or <<n>>, and a Date is Invalid or the    *)
(* record of its local calendar day (days since 1 Jan 1970) and the        *)
(* milliseconds into that local day.                                       *)
(***************************************************************************)
EXTENDS Integers, Sequences, FiniteSets, TLC

VARIABLES
    records,          \* useState<Record[]>(data): the record store
    sortField,        \* useState<SortField | null>(null)
    sortDirection,    \* useState<SortDirection>("asc")
    currentPage,      \* useState(1)
    filterStatus,     \* useState<Status | "ALL">("ALL")
    searchName,       \* useState("")
    dateFrom,         \* useState(""): value of the first <input type="date">
    dateTo,           \* useState(""): value of the second <input type="date">
    displayCount,     \* useState(5), progressive table only
    progressive,      \* which of the two Table components is mounted
    effectPage,       \* useEffect [currentPage] is scheduled (progressive table)
    effectCriteria,   \* useEffect [searchName, ..., sortDirection] is scheduled
    tzOffset,         \* the host's time zone: local time - UTC, in milliseconds
    sortEngine        \* the host's implementation of Array.prototype.sort

vars == <<records, sortField, sortDirection, currentPage, filterStatus,
          searchName, dateFrom, dateTo, displayCount, progressive,
          effectPage, effectCriteria, tzOffset, sortEngine>>

-----------------------------------------------------------------------------
(* Bounds of the model *)

\* Number of records of the small data prop.
NumRecords == 3

\* Number of records of the data prop that fills more than one page.
PagedRecords == 13

\* At most this many records differ in status from the data prop.
MaxChanged == 1

-----------------------------------------------------------------------------
(* JavaScript values *)

NaN == <<>>
Num(n) == <<n>>
IsNaN(x) == x = NaN
Val(x) == x[1]

Min(a, b) == IF a <= b THEN a ELSE b
Max(a, b) == IF a >= b THEN a ELSE b

\* Math.ceil(a / b) for a >= 0, b > 0
Ceil(a, b) == (a + b - 1) \div b

UpperCase == <<"A","B","C","D","E","F","G","H","I","J","K","L","M",
               "N","O","P","Q","R","S","T","U","V","W","X","Y","Z">>
LowerCase == <<"a","b","c","d","e","f","g","h","i","j","k","l","m",
               "n","o","p","q","r","s","t","u","v","w","x","y","z">>

UpperSet == {UpperCase[i] : i \in 1..26}

LowerOf == [c \in UpperSet |-> LowerCase[CHOOSE i \in 1..26 : UpperCase[i] = c]]

\* String.prototype.toLowerCase on one character
LowerChar(c) == IF c \in UpperSet THEN LowerOf[c] ELSE c

\* String.prototype.toLowerCase
toLowerCase(s) == [i \in 1..Len(s) |-> LowerChar(s[i])]

\* String.prototype.includes: needle occurs in s as a contiguous substring
includes(s, needle) ==
    \E k \in 0..(Len(s) - Len(needle)) :
        \A j \in 1..Len(needle) : s[k + j] = needle[j]

\* String.prototype.split with a one-character separator
RECURSIVE SplitFrom(_, _, _, _)
SplitFrom(s, sep, i, cur) ==
    IF i > Len(s) THEN <<cur>>
    ELSE IF s[i] = sep THEN <<cur>> \o SplitFrom(s, sep, i + 1, <<>>)
    ELSE SplitFrom(s, sep, i + 1, Append(cur, s[i]))

split(s, sep) == SplitFrom(s, sep, 1, <<>>)

Digits == <<"0","1","2","3","4","5","6","7","8","9">>
DigitSet == {Digits[d] : d \in 1..10}
DigitOf == [c \in DigitSet |-> (CHOOSE d \in 1..10 : Digits[d] = c) - 1]
IsDigit(c) == c \in DigitSet
DigitValue(c) == DigitOf[c]

\* parseInt's scan: the value of the longest prefix of digits from position i
RECURSIVE DigitPrefix(_, _, _)
DigitPrefix(s, i, acc) ==
    IF i > Len(s) \/ ~IsDigit(s[i]) THEN acc
    ELSE DigitPrefix(s, i + 1, acc * 10 + DigitValue(s[i]))

\* parseInt(s): the leading digits of s, NaN when s does not start with a
\* digit. parts is the result of split and k the index read: a missing
\* element is undefined, which parseInt turns into NaN.
parseInt(parts, k) ==
    IF k > Len(parts) THEN NaN
    ELSE IF Len(parts[k]) = 0 \/ ~IsDigit(parts[k][1]) THEN NaN
    ELSE Num(DigitPrefix(parts[k], 1, 0))

-----------------------------------------------------------------------------
(* JavaScript Date *)

MsPerSecond == 10 * 100
MsPerMinute == 60 * MsPerSecond
MsPerHour == 60 * MsPerMinute
MsPerDay == 24 * MsPerHour

Invalid == [valid |-> FALSE]
LocalDate(d, m) == [valid |-> TRUE, day |-> d, ms |-> m]

IsLeap(y) == (y % 4 = 0 /\ y % 100 # 0) \/ y % 400 = 0

\* leap years in 1..y
LeapsThrough(y) == (y \div 4) - (y \div 100) + (y \div 400)

DaysBeforeMonth == <<0, 31, 59, 90, 120, 151, 181, 212, 243, 273, 304, 334>>

\* MakeDay: days from 1 Jan 1970 to day `day` of month `month` (0..11) of
\* `year`; a day past the end of the month runs into the next one.
MakeDay(year, month, day) ==
    365 * (year - 1970) + LeapsThrough(year - 1) - LeapsThrough(1969)
    + DaysBeforeMonth[month + 1]
    + (IF month > 1 /\ IsLeap(year) THEN 1 ELSE 0)
    + (day - 1)

\* new Date(year, month, day): local midnight of that day; Invalid Date when
\* an argument is NaN; years 0..99 mean 1900..1999.
NewDateLocal(year, month, day) ==
    IF IsNaN(year) \/ IsNaN(month) \/ IsNaN(day) THEN Invalid
    ELSE LET y == IF Val(year) >= 0 /\ Val(year) <= 99
                  THEN 1900 + Val(year) ELSE Val(year)
         IN  LocalDate(MakeDay(y, Val(month), Val(day)), 0)

\* new Date("YYYY-MM-DD"): a date-only ISO string is midnight UTC of that
\* day, seen here in local time (tz = local - UTC in milliseconds).
NewDateISO(s, tz) ==
    LET parts == split(s, "-")
        y == parseInt(parts, 1)
        m == parseInt(parts, 2)
        d == parseInt(parts, 3)
    IN  IF IsNaN(y) \/ IsNaN(m) \/ IsNaN(d) THEN Invalid
        ELSE LET utcDay == MakeDay(Val(y), Val(m) - 1, Val(d))
             IN  LocalDate(utcDay + (tz \div MsPerDay), tz % MsPerDay)

\* Date.prototype.setHours(h, m, s, ms): local fields, the local day is kept
setHours(date, h, m, s, ms) ==
    IF ~date.valid THEN Invalid
    ELSE LocalDate(date.day,
                   h * MsPerHour + m * MsPerMinute + s * MsPerSecond + ms)

\* a >= b and a <= b on Dates (valueOf): false when either is Invalid Date
DateGE(a, b) ==
    /\ a.valid /\ b.valid
    /\ (a.day > b.day \/ (a.day = b.day /\ a.ms >= b.ms))

DateLE(a, b) ==
    /\ a.valid /\ b.valid
    /\ (a.day < b.day \/ (a.day = b.day /\ a.ms <= b.ms))

\* sign of a.getTime() - b.getTime(); NaN when either is Invalid Date
TimeDiffSign(a, b) ==
    IF ~a.valid \/ ~b.valid THEN NaN
    ELSE IF a.day # b.day THEN Num(IF a.day < b.day THEN -1 ELSE 1)
    ELSE IF a.ms # b.ms THEN Num(IF a.ms < b.ms THEN -1 ELSE 1)
    ELSE Num(0)

MonthNames == << <<"J","a","n">>, <<"F","e","b">>, <<"M","a","r">>,
                 <<"A","p","r">>, <<"M","a","y">>, <<"J","u","n">>,
                 <<"J","u","l">>, <<"A","u","g">>, <<"S","e","p">>,
                 <<"O","c","t">>, <<"N","o","v">>, <<"D","e","c">> >>

MonthSet == {MonthNames[i] : i \in 1..12}

MonthOf == [m \in MonthSet |-> (CHOOSE i \in 1..12 : MonthNames[i] = m) - 1]

\* months[parts[1]]: the month index, undefined (NaN to new Date) otherwise
months(parts, k) ==
    IF k > Len(parts) THEN NaN
    ELSE IF parts[k] \in MonthSet THEN Num(MonthOf[parts[k]])
    ELSE NaN

\* parseDate: "30 Dec 2024" to a Date
parseDate(dateString) ==
    LET parts == split(dateString, " ")
        day == parseInt(parts, 1)
        month == months(parts, 2)
        year == parseInt(parts, 3)
    IN  NewDateLocal(year, month, day)

-----------------------------------------------------------------------------
(* Types and the data prop *)

\* type Status of types.ts
Status == {"ACTIVE", "INVITED", "BLOCKED"}

\* type SortField
SortField == {"name", "email", "date", "invitedBy", "status"}

\* sortField's null
null == "null"

recordsPerPage == 10

\* Number.prototype.toString for i >= 0
RECURSIVE toString(_)
toString(i) ==
    IF i < 10 THEN <<Digits[i + 1]>>
    ELSE toString(i \div 10) \o <<Digits[(i % 10) + 1]>>

\* The characters of a status (or of a value of the status <select>)
StatusChars(st) ==
    CASE st = "ACTIVE"   -> <<"A","C","T","I","V","E">>
      [] st = "INVITED"  -> <<"I","N","V","I","T","E","D">>
      [] st = "BLOCKED"  -> <<"B","L","O","C","K","E","D">>
      [] st = "INACTIVE" -> <<"I","N","A","C","T","I","V","E">>
      [] OTHER           -> <<"A","L","L">>

\* Field values of the records passed as the data prop
DataNames == << <<"A","l">>, <<"b","A","L">>, <<"B","o">> >>

DataEmails == << <<"a","@","x">>, <<"b","@","x">>, <<"B","@","x">> >>

\* "31 May 2023", "01 Jun 2023", "01/06/2023" (the form
\* toLocaleDateString("en-GB") gives), "02 Jun 2023", "31 May 2023" again
\* and "31 May 2023 10:00"
DataDates ==
    << <<"3","1"," ","M","a","y"," ","2","0","2","3">>,
       <<"0","1"," ","J","u","n"," ","2","0","2","3">>,
       <<"0","1","/","0","6","/","2","0","2","3">>,
       <<"0","2"," ","J","u","n"," ","2","0","2","3">>,
       <<"3","1"," ","M","a","y"," ","2","0","2","3">>,
       <<"3","1"," ","M","a","y"," ","2","0","2","3"," ","1","0",":","0","0">> >>

DataInviters == << <<"B","o">>, <<"A","l">> >>

DataStatus(i) ==
    IF i = 1 THEN "INVITED" ELSE IF i = 2 THEN "BLOCKED" ELSE "ACTIVE"

\* The i-th record of the data prop (interface Record)
DataRecord(i) ==
    [ id |-> toString(i),
      about |-> [ name |-> DataNames[((i - 1) % 3) + 1],
                  status |-> DataStatus(i),
                  email |-> DataEmails[((i - 1) % 3) + 1] ],
      details |-> [ date |-> DataDates[((i - 1) % 6) + 1],
                    invitedBy |-> DataInviters[((i - 1) % 2) + 1] ] ]

\* <Table data={records} />: a few records, and more than a page of them
data == [i \in 1..NumRecords |-> DataRecord(i)]

pagedData == [i \in 1..PagedRecords |-> DataRecord(i)]

\* Date.prototype.getFullYear, getMonth (0..11) and getDate of a valid Date
getFullYear(date) ==
    CHOOSE y \in 1970..2099 :
        MakeDay(y, 0, 1) <= date.day /\ date.day < MakeDay(y + 1, 0, 1)

getMonth(date) ==
    LET y == getFullYear(date)
    IN  CHOOSE m \in 0..11 :
            /\ MakeDay(y, m, 1) <= date.day
            /\ date.day < (IF m = 11 THEN MakeDay(y + 1, 0, 1)
                           ELSE MakeDay(y, m + 1, 1))

getDate(date) ==
    date.day - MakeDay(getFullYear(date), getMonth(date), 1) + 1

\* two digits, with a leading zero
TwoDigits(n) == IF n < 10 THEN <<"0">> \o toString(n) ELSE toString(n)

\* Date.prototype.toLocaleDateString("en-GB"): "dd/mm/yyyy"
toLocaleDateString(date) ==
    TwoDigits(getDate(date)) \o <<"/">> \o TwoDigits(getMonth(date) + 1)
        \o <<"/">> \o toString(getFullYear(date))

\* generateRandomDate: a day between 1 Jan 2023 and 31 Dec 2024, dayOffset
\* whole days after the first (what Math.random() picks), as the string
\* toLocaleDateString("en-GB") makes of it
generateRandomDate(dayOffset) ==
    LET start == NewDateLocal(Num(2023), Num(0), Num(1))
        date == LocalDate(start.day + dayOffset, 0)
    IN  toLocaleDateString(date)

\* the first entries of firstNames and lastNames
firstNames == << <<"J","o","h","n">>, <<"J","a","n","e">> >>

lastNames == << <<"S","m","i","t","h">>, <<"J","o","h","n","s","o","n">> >>

\* generateRandomName: first and last are what Math.floor(Math.random() *
\* length) picks (from 0)
generateRandomName(first, last) ==
    firstNames[first + 1] \o <<" ">> \o lastNames[last + 1]

\* String.prototype.replace(" ", "."): the first space only
RECURSIVE ReplaceFirstSpace(_, _)
ReplaceFirstSpace(name, i) ==
    IF i > Len(name) THEN name
    ELSE IF name[i] = " " THEN [name EXCEPT ![i] = "."]
    ELSE ReplaceFirstSpace(name, i + 1)

generateEmail(name) ==
    ReplaceFirstSpace(toLowerCase(name), 1)
        \o <<"@","d","e","m","o",".","c","o","m">>

\* getRandomStatus: pick is what Math.floor(Math.random() * 3) gives
getRandomStatus(pick) == <<"ACTIVE", "INVITED", "BLOCKED">>[pick + 1]

\* Day offsets Math.random() may pick: 31 May, 1, 15 and 30 Jun and 1 Jul
\* 2023, and 1 Jun 2024
DayOffsets == <<150, 151, 165, 180, 181, 517>>

\* The outcomes of Math.random() in one run of generateRecords
Seeds == {1, 4}

\* the status picked for the i-th record
StatusPick(i) == IF i = 1 THEN 1 ELSE IF i = 2 THEN 2 ELSE 0

\* generateRecords, for the random outcomes seed stands for
generateRecords(seed) ==
    [i \in 1..NumRecords |->
        LET name == generateRandomName((seed + i) % 2, i % 2)
            inviterName == generateRandomName(i % 2, (seed + i) % 2)
        IN  [ id |-> toString(i),
              about |-> [ name |-> name,
                          status |-> getRandomStatus(StatusPick(i)),
                          email |-> generateEmail(name) ],
              details |-> [ date |-> generateRandomDate(
                                DayOffsets[((seed + i) % Len(DayOffsets)) + 1]),
                            invitedBy |-> inviterName ] ] ]

\* Values the user can give the controls
SearchInputs == { <<>>, <<"a","L">> }

StatusOptions == {"ALL", "ACTIVE", "INACTIVE", "BLOCKED"}

\* Two of the status options and two of the sortable columns
LiveStatusOptions == {"ALL", "ACTIVE"}

LiveSortFields == {"name", "date"}

DateInputs == { <<>>, <<"2","0","2","3","-","0","6","-","0","1">> }

\* Values of the second date input on the generated records
DateToInputs == { <<>>, <<"2","0","2","3","-","0","6","-","3","0">> }

\* literal target statuses of the three row buttons
ButtonStatuses == {"BLOCKED", "ACTIVE", "INACTIVE"}

\* UTC-5 and UTC+5:30
TimeZones == { -5 * MsPerHour, 5 * MsPerHour + 30 * MsPerMinute }

-----------------------------------------------------------------------------
(* Filter stage *)

\* RecordPasses parsing the record's date whether or not a bound is set
RecordPasses_AlwaysDated(record, fStatus, search, from, to, fromDate, toDate) ==
    LET statusMatch == fStatus = "ALL" \/ record.about.status = fStatus
        nameMatch == includes(toLowerCase(record.about.name),
                              toLowerCase(search))
        recordDate == setHours(parseDate(record.details.date), 0, 0, 0, 0)
        dateMatch ==
            /\ recordDate.valid
            /\ (from # <<>> => DateGE(recordDate, fromDate))
            /\ (to # <<>> => DateLE(recordDate, toDate))
    IN  statusMatch /\ nameMatch /\ dateMatch

\* the callback of records.filter; fromDate and toDate are what the
\* callback makes of dateFrom and dateTo, the same for every record
RecordPasses(record, fStatus, search, from, to, fromDate, toDate) ==
    LET statusMatch == fStatus = "ALL" \/ record.about.status = fStatus
        nameMatch == includes(toLowerCase(record.about.name),
                              toLowerCase(search))
        recordDate == setHours(parseDate(record.details.date), 0, 0, 0, 0)
        dateMatch ==
            IF from # <<>> \/ to # <<>>
            THEN /\ (from # <<>> => DateGE(recordDate, fromDate))
                 /\ (to # <<>> => DateLE(recordDate, toDate))
            ELSE TRUE
    IN  statusMatch /\ nameMatch /\ dateMatch

\* Filter collecting the passing records last one first
Filter_Reversed(recs, fStatus, search, from, to, tz) ==
    LET fromDate == IF from # <<>>
                    THEN setHours(NewDateISO(from, tz), 0, 0, 0, 0)
                    ELSE Invalid
        toDate == IF to # <<>>
                  THEN setHours(NewDateISO(to, tz), 23, 59, 59, 999)
                  ELSE Invalid
        kept == SelectSeq(recs, LAMBDA r :
            RecordPasses(r, fStatus, search, from, to, fromDate, toDate))
    IN  [k \in 1..Len(kept) |-> kept[Len(kept) + 1 - k]]

\* records.filter(...)
Filter(recs, fStatus, search, from, to, tz) ==
    LET fromDate == IF from # <<>>
                    THEN setHours(NewDateISO(from, tz), 0, 0, 0, 0)
                    ELSE Invalid
        toDate == IF to # <<>>
                  THEN setHours(NewDateISO(to, tz), 23, 59, 59, 999)
                  ELSE Invalid
    IN  SelectSeq(recs, LAMBDA r :
            RecordPasses(r, fStatus, search, from, to, fromDate, toDate))

filteredData ==
    Filter(records, filterStatus, searchName, dateFrom, dateTo, tzOffset)

-----------------------------------------------------------------------------
(* Sort stage *)

\* Collation order of the characters the model uses: white space, then
\* punctuation and symbols, then digits, then letters (case apart).
CollationOrder == <<" ", "-", ".", "/", "@">> \o Digits \o LowerCase

CollatedSet == {CollationOrder[i] : i \in 1..Len(CollationOrder)}

RankOf ==
    [c \in CollatedSet |->
        CHOOSE i \in 1..Len(CollationOrder) : CollationOrder[i] = c]

CollationRank(c) ==
    LET l == LowerChar(c)
    IN  IF l \in CollatedSet THEN RankOf[l] ELSE 0

IsUpper(c) == c \in UpperSet

\* first level of localeCompare: the characters without their case
RECURSIVE PrimaryCompare(_, _, _)
PrimaryCompare(a, b, i) ==
    IF i > Len(a) /\ i > Len(b) THEN 0
    ELSE IF i > Len(a) THEN -1
    ELSE IF i > Len(b) THEN 1
    ELSE IF CollationRank(a[i]) < CollationRank(b[i]) THEN -1
    ELSE IF CollationRank(a[i]) > CollationRank(b[i]) THEN 1
    ELSE PrimaryCompare(a, b, i + 1)

\* last level of localeCompare, for strings equal but for case: at the
\* first difference the lower-case letter comes first
RECURSIVE CaseCompare(_, _, _)
CaseCompare(a, b, i) ==
    IF i > Len(a) THEN 0
    ELSE IF a[i] = b[i] THEN CaseCompare(a, b, i + 1)
    ELSE IF IsUpper(b[i]) THEN -1 ELSE 1

\* String.prototype.localeCompare: negative, 0 or positive
localeCompare(a, b) ==
    LET p == PrimaryCompare(a, b, 1)
    IN  IF p # 0 THEN p ELSE CaseCompare(a, b, 1)

\* what the compare function reads of a record: the parsed date for the
\* date field, the field's characters for the others
SortKey(r, field) ==
    CASE field = "name" -> r.about.name
      [] field = "email" -> r.about.email
      [] field = "date" -> parseDate(r.details.date)
      [] field = "invitedBy" -> r.details.invitedBy
      [] field = "status" -> StatusChars(r.about.status)
      [] OTHER -> <<>>

\* compareKeys returning 1 when no sort field is selected
compareKeys_NullIsGreater(aValue, bValue, field, direction) ==
    IF field = null THEN Num(1)
    ELSE IF field = "date"
    THEN IF direction = "asc" THEN TimeDiffSign(aValue, bValue)
         ELSE TimeDiffSign(bValue, aValue)
    ELSE LET comparison == localeCompare(aValue, bValue)
         IN  Num(IF direction = "asc" THEN comparison ELSE 0 - comparison)

\* compareKeys returning the comparison whatever the direction
compareKeys_IgnoresDirection(aValue, bValue, field, direction) ==
    IF field = null THEN Num(0)
    ELSE IF field = "date"
    THEN IF direction = "asc" THEN TimeDiffSign(aValue, bValue)
         ELSE TimeDiffSign(bValue, aValue)
    ELSE LET comparison == localeCompare(aValue, bValue)
         IN  Num(comparison)

\* the compare function given to sort, on what it reads of a and b: a
\* number, or NaN
compareKeys(aValue, bValue, field, direction) ==
    IF field = null THEN Num(0)
    ELSE IF field = "date"
    THEN IF direction = "asc" THEN TimeDiffSign(aValue, bValue)
         ELSE TimeDiffSign(bValue, aValue)
    ELSE LET comparison == localeCompare(aValue, bValue)
         IN  Num(IF direction = "asc" THEN comparison ELSE 0 - comparison)

compareFn(a, b, field, direction) ==
    compareKeys(SortKey(a, field), SortKey(b, field), field, direction)

\* Array.prototype.sort reads a NaN from the compare function as +0
After(aValue, bValue, field, direction) ==
    LET v == compareKeys(aValue, bValue, field, direction)
    IN  ~IsNaN(v) /\ Val(v) > 0

\* Index x put into the sorted sequence of indices s behind every index
\* whose element is not after the element at x (keys[i]: what the compare
\* function reads of the i-th element).
RECURSIVE InsertSorted(_, _, _, _, _, _)
InsertSorted(s, x, j, keys, field, direction) ==
    IF j >= 1 /\ After(keys[s[j]], keys[x], field, direction)
    THEN InsertSorted(s, x, j - 1, keys, field, direction)
    ELSE SubSeq(s, 1, j) \o <<x>> \o SubSeq(s, j + 1, Len(s))

RECURSIVE SortPrefix(_, _, _, _)
SortPrefix(n, keys, field, direction) ==
    IF n = 0 THEN <<>>
    ELSE LET s == SortPrefix(n - 1, keys, field, direction)
         IN  InsertSorted(s, n, Len(s), keys, field, direction)

\* The number the sort reads from the compare function: NaN is +0.
Compare(aValue, bValue, field, direction) ==
    LET v == compareKeys(aValue, bValue, field, direction)
    IN  IF IsNaN(v) THEN 0 ELSE Val(v)

\* The last index of the run that starts at index 1 and goes on from idx:
\* strictly descending, or not descending. less[i][j]: the compare function
\* gives a negative number for the i-th and the j-th element.
RECURSIVE RunEnd(_, _, _, _)
RunEnd(idx, n, isDescending, less) ==
    IF idx > n THEN n
    ELSE IF less[idx][idx - 1] # isDescending THEN idx - 1
    ELSE RunEnd(idx + 1, n, isDescending, less)

\* The run at the start of the n elements, a descending run reversed
CountAndMakeRun(n, less) ==
    IF n < 2 THEN [k \in 1..n |-> k]
    ELSE LET run == RunEnd(3, n, less[2][1], less)
         IN  [k \in 1..run |-> IF less[2][1] THEN run + 1 - k ELSE k]

\* Binary search for the place of pivot in the sorted indices s, between
\* left and right (counted from 0)
RECURSIVE BinarySearch(_, _, _, _, _)
BinarySearch(s, pivot, left, right, less) ==
    IF left >= right THEN left
    ELSE LET mid == left + ((right - left) \div 2)
         IN  IF less[pivot][s[mid + 1]]
             THEN BinarySearch(s, pivot, left, mid, less)
             ELSE BinarySearch(s, pivot, mid + 1, right, less)

\* Index x put into the sorted indices s at the place the binary search finds
BinaryInsert(s, x, left) ==
    SubSeq(s, 1, left) \o <<x>> \o SubSeq(s, left + 1, Len(s))

\* The first n indices sorted: the run at the start, the others put in
\* one after the other.
RECURSIVE BinaryInsertionSort(_, _, _)
BinaryInsertionSort(n, run, less) ==
    IF n <= Len(run) THEN run
    ELSE LET s == BinaryInsertionSort(n - 1, run, less)
         IN  BinaryInsert(s, n, BinarySearch(s, n, 0, Len(s), less))

\* The sorts a host may run on an array this short: the insertion sort, and
\* the binary insertion sort that follows the run at the start of the array
\* (arrays of fewer than 64 elements). Both are stable and agree whenever
\* the compare function is consistent; when it is not, the order is the
\* host's.
SortEngines == {"insertion", "binary"}

\* Array.prototype.sort on a copy of arr
Sort(arr, field, direction, engine) ==
    LET keys == [i \in 1..Len(arr) |-> SortKey(arr[i], field)]
        less == [i \in 1..Len(arr) |-> [j \in 1..Len(arr) |->
                    Compare(keys[i], keys[j], field, direction) < 0]]
        order ==
            IF engine = "binary"
            THEN BinaryInsertionSort(Len(arr), CountAndMakeRun(Len(arr), less),
                                     less)
            ELSE SortPrefix(Len(arr), keys, field, direction)
    IN  [k \in 1..Len(arr) |-> arr[order[k]]]

sortedData == Sort(filteredData, sortField, sortDirection, sortEngine)

-----------------------------------------------------------------------------
(* Pagination stage *)

\* Array.prototype.slice(start, end): a negative index counts from the end
slice(arr, start, end) ==
    LET len == Len(arr)
        k == IF start < 0 THEN Max(len + start, 0) ELSE Min(start, len)
        final == IF end < 0 THEN Max(len + end, 0) ELSE Min(end, len)
    IN  SubSeq(arr, k + 1, final)

\* Math.ceil(sortedData.length / recordsPerPage)
TotalPagesOf(n) == Ceil(n, recordsPerPage)

totalPages == TotalPagesOf(Len(sortedData))

\* startIndex one page too far
startIndex_NextPage == currentPage * recordsPerPage

startIndex == (currentPage - 1) * recordsPerPage

endIndex == startIndex + recordsPerPage

\* currentRecords of Table.tsx, pageRecords of the progressive table
pageRecords == slice(sortedData, startIndex, endIndex)

\* the rows rendered
currentRecords ==
    IF progressive
    THEN slice(pageRecords, 0, Min(displayCount, Len(pageRecords)))
    ELSE pageRecords

\* the text of the status badge of a row
StatusLabel(status) ==
    IF status = "ACTIVE" THEN "Active"
    ELSE IF status = "INACTIVE" THEN "Inactive"
    ELSE "Blocked"

-----------------------------------------------------------------------------
(* Statistics *)

\* records.filter((r) => r.about.status === st).length
CountStatus(recs, st) ==
    Cardinality({i \in 1..Len(recs) : recs[i].about.status = st})

totalUsers == Len(records)

\* activeCount counting the records of the filtered sequence
activeCount_OverFiltered == CountStatus(filteredData, "ACTIVE")

activeCount == CountStatus(records, "ACTIVE")

inactiveCount == CountStatus(records, "INACTIVE")

\* blockedCount counting every record that is not ACTIVE
blockedCount_NotActive == Len(records) - CountStatus(records, "ACTIVE")

blockedCount == CountStatus(records, "BLOCKED")

\* ((count / total) * 100).toFixed(0), for 0 <= count <= total: the nearest
\* integer, the larger of two that are as near, as a string; 0 / 0 is NaN,
\* and NaN.toFixed(0) is "NaN"
PercentageOf(count, total) ==
    IF total = 0
    THEN IF count = 0 THEN <<"N","a","N">>
         ELSE <<"I","n","f","i","n","i","t","y">>
    ELSE toString((200 * count + total) \div (2 * total))

inactivePercentage == PercentageOf(inactiveCount, totalUsers)

blockedPercentage == PercentageOf(blockedCount, totalUsers)

-----------------------------------------------------------------------------
(* Initial state: the component as mounted *)

InitControls ==
    /\ sortField = null
    /\ sortDirection = "asc"
    /\ currentPage = 1
    /\ filterStatus = "ALL"
    /\ searchName = <<>>
    /\ dateFrom = <<>>
    /\ dateTo = <<>>
    /\ displayCount = 5
    /\ effectPage = FALSE
    /\ effectCriteria = FALSE

\* Table.tsx with a few records, or none, on a host in either time zone
Init ==
    /\ InitControls
    /\ records \in {data, <<>>}
    /\ progressive = FALSE
    /\ tzOffset \in TimeZones
    /\ sortEngine \in SortEngines

\* Table.tsx with the records data/api.ts generates (a few of the 100)
InitGenerated ==
    /\ InitControls
    /\ records \in {generateRecords(seed) : seed \in Seeds}
    /\ progressive = FALSE
    /\ tzOffset \in TimeZones
    /\ sortEngine \in SortEngines

\* Table.tsx with more than a page of records
InitPaged ==
    /\ InitControls
    /\ records = pagedData
    /\ progressive = FALSE
    /\ tzOffset \in TimeZones
    /\ sortEngine \in SortEngines

\* the progressive loading table with more than a page of records, on a
\* host at UTC+5:30 whose sort is the binary insertion sort
InitProgressive ==
    /\ InitControls
    /\ records = pagedData
    /\ progressive = TRUE
    /\ tzOffset = 5 * MsPerHour + 30 * MsPerMinute
    /\ sortEngine = "binary"

-----------------------------------------------------------------------------
(* Rendering and effects *)

\* the dependencies of the second effect of the progressive table
Criteria ==
    <<searchName, filterStatus, dateFrom, dateTo, sortField, sortDirection>>

\* No effect is waiting: the table is rendered and takes user events.
Idle == ~effectPage /\ ~effectCriteria

\* The render after a handler: an effect whose dependencies changed is
\* scheduled. Table.tsx has no effects.
Render ==
    /\ effectPage' = (progressive /\ currentPage' # currentPage)
    /\ effectCriteria' = (progressive /\ Criteria' # Criteria)

\* RunEffects without the setDisplayCount(5) of the two effects
RunEffects_KeepsCount ==
    /\ ~Idle
    /\ displayCount' = displayCount
    /\ currentPage' = IF effectCriteria THEN 1 ELSE currentPage
    /\ effectPage' = (currentPage' # currentPage)
    /\ effectCriteria' = FALSE
    /\ UNCHANGED <<records, sortField, sortDirection, filterStatus,
                   searchName, dateFrom, dateTo, progressive, tzOffset, sortEngine>>

\* the bodies of the two useEffect calls, run after the render that
\* scheduled them, and the render that follows
RunEffects ==
    /\ ~Idle
    /\ displayCount' = 5
    /\ currentPage' = IF effectCriteria THEN 1 ELSE currentPage
    /\ effectPage' = (currentPage' # currentPage)
    /\ effectCriteria' = FALSE
    /\ UNCHANGED <<records, sortField, sortDirection, filterStatus,
                   searchName, dateFrom, dateTo, progressive, tzOffset, sortEngine>>

-----------------------------------------------------------------------------
(* Event handlers *)

\* onChange of the search input without its setCurrentPage(1)
SetSearchName_KeepsPage(value) ==
    /\ Idle
    /\ value # searchName
    /\ searchName' = value
    /\ currentPage' = currentPage
    /\ UNCHANGED <<records, sortField, sortDirection, filterStatus,
                   dateFrom, dateTo, displayCount, progressive, tzOffset, sortEngine>>
    /\ Render

\* onChange of the search input
SetSearchName(value) ==
    /\ Idle
    /\ value # searchName
    /\ searchName' = value
    /\ currentPage' = 1
    /\ UNCHANGED <<records, sortField, sortDirection, filterStatus,
                   dateFrom, dateTo, displayCount, progressive, tzOffset, sortEngine>>
    /\ Render

\* onChange of the status <select>
SetFilterStatus(value) ==
    /\ Idle
    /\ value # filterStatus
    /\ filterStatus' = value
    /\ currentPage' = 1
    /\ UNCHANGED <<records, sortField, sortDirection, searchName,
                   dateFrom, dateTo, displayCount, progressive, tzOffset, sortEngine>>
    /\ Render

\* onChange of the first date input
SetDateFrom(value) ==
    /\ Idle
    /\ value # dateFrom
    /\ dateFrom' = value
    /\ currentPage' = 1
    /\ UNCHANGED <<records, sortField, sortDirection, filterStatus,
                   searchName, dateTo, displayCount, progressive, tzOffset, sortEngine>>
    /\ Render

\* onChange of the second date input
SetDateTo(value) ==
    /\ Idle
    /\ value # dateTo
    /\ dateTo' = value
    /\ currentPage' = 1
    /\ UNCHANGED <<records, sortField, sortDirection, filterStatus,
                   searchName, dateFrom, displayCount, progressive, tzOffset, sortEngine>>
    /\ Render

\* handleClearFilters also putting the data prop back into the store
handleClearFilters_ReloadsStore ==
    /\ Idle
    /\ filterStatus' = "ALL"
    /\ searchName' = <<>>
    /\ dateFrom' = <<>>
    /\ dateTo' = <<>>
    /\ currentPage' = 1
    /\ displayCount' = IF progressive THEN 5 ELSE displayCount
    /\ records' = [i \in 1..Len(records) |-> DataRecord(i)]
    /\ UNCHANGED <<sortField, sortDirection, progressive, tzOffset, sortEngine>>
    /\ Render

handleClearFilters ==
    /\ Idle
    /\ filterStatus' = "ALL"
    /\ searchName' = <<>>
    /\ dateFrom' = <<>>
    /\ dateTo' = <<>>
    /\ currentPage' = 1
    /\ displayCount' = IF progressive THEN 5 ELSE displayCount
    /\ UNCHANGED <<records, sortField, sortDirection, progressive, tzOffset, sortEngine>>
    /\ Render

\* handleSort keeping the direction when another field is selected
handleSort_KeepsDirection(field) ==
    /\ Idle
    /\ IF sortField = field
       THEN /\ sortDirection' = IF sortDirection = "asc" THEN "desc" ELSE "asc"
            /\ sortField' = sortField
       ELSE /\ sortField' = field
            /\ sortDirection' = sortDirection
    /\ UNCHANGED <<records, currentPage, filterStatus, searchName, dateFrom,
                   dateTo, displayCount, progressive, tzOffset, sortEngine>>
    /\ Render

handleSort(field) ==
    /\ Idle
    /\ IF sortField = field
       THEN /\ sortDirection' = IF sortDirection = "asc" THEN "desc" ELSE "asc"
            /\ sortField' = sortField
       ELSE /\ sortField' = field
            /\ sortDirection' = "asc"
    /\ UNCHANGED <<records, currentPage, filterStatus, searchName, dateFrom,
                   dateTo, displayCount, progressive, tzOffset, sortEngine>>
    /\ Render

\* UpdateStatus with about rebuilt without the record's email
UpdateStatus_DropsEmail(prevRecords, recordId, newStatus) ==
    [i \in 1..Len(prevRecords) |->
        IF prevRecords[i].id = recordId
        THEN [prevRecords[i] EXCEPT !.about.status = newStatus,
                                    !.about.email = <<>>]
        ELSE prevRecords[i]]

\* prevRecords.map(...) of handleStatusUpdate
UpdateStatus(prevRecords, recordId, newStatus) ==
    [i \in 1..Len(prevRecords) |->
        IF prevRecords[i].id = recordId
        THEN [prevRecords[i] EXCEPT !.about.status = newStatus]
        ELSE prevRecords[i]]

\* number of records whose status is not the one of the data prop
ChangedCount(recs) ==
    Cardinality({i \in 1..Len(recs) : recs[i].about.status # DataStatus(i)})

\* the ids of the rendered rows, each with its three buttons
RenderedIds ==
    LET rows == currentRecords
    IN  {rows[i].id : i \in 1..Len(rows)}

\* a click on one of the three buttons of a rendered row
handleStatusUpdate(recordId, newStatus) ==
    /\ Idle
    /\ records' = UpdateStatus(records, recordId, newStatus)
    /\ ChangedCount(records') <= MaxChanged
    /\ UNCHANGED <<sortField, sortDirection, currentPage, filterStatus,
                   searchName, dateFrom, dateTo, displayCount, progressive,
                   tzOffset, sortEngine>>
    /\ Render

\* the Previous button: setCurrentPage((prev) => Math.max(prev - 1, 1))
PreviousPage ==
    /\ Idle
    /\ currentPage # 1
    /\ currentPage' = Max(currentPage - 1, 1)
    /\ UNCHANGED <<records, sortField, sortDirection, filterStatus,
                   searchName, dateFrom, dateTo, displayCount, progressive,
                   tzOffset, sortEngine>>
    /\ Render

\* the Next button: setCurrentPage((prev) => Math.min(prev + 1, totalPages))
NextPage ==
    /\ Idle
    /\ currentPage # totalPages
    /\ currentPage' = Min(currentPage + 1, totalPages)
    /\ UNCHANGED <<records, sortField, sortDirection, filterStatus,
                   searchName, dateFrom, dateTo, displayCount, progressive,
                   tzOffset, sortEngine>>
    /\ Render

\* the first-page button of the progressive table: setCurrentPage(1)
FirstPage ==
    /\ Idle
    /\ currentPage # 1
    /\ currentPage' = 1
    /\ UNCHANGED <<records, sortField, sortDirection, filterStatus,
                   searchName, dateFrom, dateTo, displayCount, progressive,
                   tzOffset, sortEngine>>
    /\ Render

\* the last-page button of the progressive table: setCurrentPage(totalPages)
LastPage ==
    /\ Idle
    /\ currentPage # totalPages
    /\ currentPage' = totalPages
    /\ UNCHANGED <<records, sortField, sortDirection, filterStatus,
                   searchName, dateFrom, dateTo, displayCount, progressive,
                   tzOffset, sortEngine>>
    /\ Render

\* onChange of the page <select>, whose options are 1..totalPages
SelectPage(page) ==
    /\ Idle
    /\ page # currentPage
    /\ currentPage' = page
    /\ UNCHANGED <<records, sortField, sortDirection, filterStatus,
                   searchName, dateFrom, dateTo, displayCount, progressive,
                   tzOffset, sortEngine>>
    /\ Render

\* endReached of the list of rendered rows
\* CanLoadMore that asks for more than a whole batch of five to be left
CanLoadMore_WholeBatchOnly ==
    LET page == pageRecords
    IN  /\ Len(page) > 0
        /\ displayCount < recordsPerPage /\ displayCount + 5 < Len(page)

\* the condition under which handleEndReached loads more rows
CanLoadMore ==
    LET page == pageRecords
    IN  /\ Len(page) > 0
        /\ displayCount < recordsPerPage /\ displayCount < Len(page)

handleEndReached ==
    /\ Idle
    /\ CanLoadMore
    /\ displayCount' = Min(displayCount + 5, recordsPerPage)
    /\ UNCHANGED <<records, sortField, sortDirection, currentPage,
                   filterStatus, searchName, dateFrom, dateTo, progressive,
                   effectPage, effectCriteria, tzOffset, sortEngine>>

-----------------------------------------------------------------------------
(* Specifications *)

\* Table.tsx
Next ==
    \/ \E value \in SearchInputs : SetSearchName(value)
    \/ \E value \in StatusOptions : SetFilterStatus(value)
    \/ \E value \in DateInputs : SetDateFrom(value)
    \/ \E value \in DateInputs : SetDateTo(value)
    \/ handleClearFilters
    \/ \E field \in SortField : handleSort(field)
    \/ \E recordId \in RenderedIds, newStatus \in ButtonStatuses :
          handleStatusUpdate(recordId, newStatus)
    \/ PreviousPage
    \/ NextPage

Spec == Init /\ [][Next]_vars

SpecPaged == InitPaged /\ [][Next]_vars

\* Table.tsx on the generated records, the user filtering on June 2023
NextGenerated ==
    \/ \E value \in SearchInputs : SetSearchName(value)
    \/ \E value \in StatusOptions : SetFilterStatus(value)
    \/ \E value \in DateInputs : SetDateFrom(value)
    \/ \E value \in DateToInputs : SetDateTo(value)
    \/ handleClearFilters
    \/ \E field \in SortField : handleSort(field)
    \/ \E recordId \in RenderedIds, newStatus \in ButtonStatuses :
          handleStatusUpdate(recordId, newStatus)
    \/ PreviousPage
    \/ NextPage

SpecGenerated == InitGenerated /\ [][NextGenerated]_vars

\* the progressive loading table
NextProgressive ==
    \/ Next
    \/ FirstPage
    \/ LastPage
    \/ \E page \in 1..totalPages : SelectPage(page)
    \/ handleEndReached
    \/ RunEffects

SpecProgressive == InitProgressive /\ [][NextProgressive]_vars

\* the progressive loading table, the user choosing among two status
\* options and two sortable columns
NextProgressiveLive ==
    \/ \E value \in SearchInputs : SetSearchName(value)
    \/ \E value \in LiveStatusOptions : SetFilterStatus(value)
    \/ \E value \in DateInputs : SetDateFrom(value)
    \/ \E value \in DateInputs : SetDateTo(value)
    \/ handleClearFilters
    \/ \E field \in LiveSortFields : handleSort(field)
    \/ \E recordId \in RenderedIds, newStatus \in ButtonStatuses :
          handleStatusUpdate(recordId, newStatus)
    \/ PreviousPage
    \/ NextPage
    \/ FirstPage
    \/ LastPage
    \/ \E page \in 1..totalPages : SelectPage(page)
    \/ handleEndReached
    \/ RunEffects

\* The progressive table with React's scheduling: an effect that a render
\* scheduled is run.
SpecProgressiveLive ==
    InitProgressive /\ [][NextProgressiveLive]_vars /\ WF_vars(RunEffects)

-----------------------------------------------------------------------------
(* Claims *)

\* The least k with k * d >= n: the ceiling of n / d, for n >= 0 and d > 0
CeilingOf(n, d) == CHOOSE k \in 0..n : k * d >= n /\ (k - 1) * d < n

\* The positions (from 0) of a sequence of n elements that page p holds:
\* the indices in [(p-1)*10, p*10)
PageIndices(n, p) ==
    {k \in 0..(n - 1) : (p - 1) * 10 <= k /\ k < p * 10}

\* seq holds exactly the elements of sorted at the positions of page p
IsPage(seq, sorted, p) ==
    /\ Len(seq) = Cardinality(PageIndices(Len(sorted), p))
    /\ \A j \in 1..Len(seq) : seq[j] = sorted[(p - 1) * 10 + j]

\* C1: in every reachable state currentPage lies in [1, totalPages].
C1_PageInRange == currentPage >= 1 /\ currentPage <= totalPages

\* C2: totalPages is the ceiling of n / 10, n the length of the
\* sorted/filtered sequence, and at least 1, also when n is 0.
C2_TotalPages ==
    /\ totalPages = Max(1, CeilingOf(Len(sortedData), 10))
    /\ totalPages >= 1

\* The date string has the form "<day> <3-letter month> <year>".
WellFormedDate(d) ==
    LET parts == split(d, " ")
    IN  /\ Len(parts) = 3
        /\ Len(parts[1]) > 0 /\ \A k \in 1..Len(parts[1]) : IsDigit(parts[1][k])
        /\ parts[2] \in MonthSet
        /\ Len(parts[3]) > 0 /\ \A k \in 1..Len(parts[3]) : IsDigit(parts[3][k])

\* The calendar day a well-formed date string names, in days since 1 Jan 1970
CalendarDay(d) ==
    LET parts == split(d, " ")
    IN  MakeDay(DigitPrefix(parts[3], 1, 0), MonthOf[parts[2]],
                DigitPrefix(parts[1], 1, 0))

\* The calendar day a date input's value "YYYY-MM-DD" names
BoundDay(v) ==
    LET parts == split(v, "-")
    IN  MakeDay(DigitPrefix(parts[1], 1, 0), DigitPrefix(parts[2], 1, 0) - 1,
                DigitPrefix(parts[3], 1, 0))

\* The record is in the filtered sequence.
InFiltered(r) == \E j \in 1..Len(filteredData) : filteredData[j].id = r.id

\* C3: a record (with a date of the documented form) is in the filtered
\* sequence iff the status filter is ALL or its status, the lower-cased
\* search string is in its lower-cased name, and its calendar day is on or
\* after dateFrom and on or before dateTo, whichever are set.
C3_FilterContract ==
    \A i \in 1..Len(records) :
        LET r == records[i]
        IN  WellFormedDate(r.details.date) =>
              ( InFiltered(r) <=>
                  /\ (filterStatus = "ALL" \/ r.about.status = filterStatus)
                  /\ includes(toLowerCase(r.about.name), toLowerCase(searchName))
                  /\ (dateFrom # <<>> =>
                        CalendarDay(r.details.date) >= BoundDay(dateFrom))
                  /\ (dateTo # <<>> =>
                        CalendarDay(r.details.date) <= BoundDay(dateTo)) )

\* C4: every action that changes a filter or sort criterion leaves
\* currentPage equal to 1.
C4_CriteriaChangeResetsPage ==
    [][Criteria' # Criteria => currentPage' = 1]_vars

C6_StatusInType ==
    \A i \in 1..Len(records) : records[i].about.status \in Status

\* C7 as stated: the rows displayed for the current page are exactly the
\* elements of the sorted/filtered sequence at indices [(p-1)*10, p*10).
C7_RowsArePage ==
    LET rows == currentRecords
        sorted == sortedData
    IN  IsPage(rows, sorted, currentPage)

\* C7 amended: the page slice (currentRecords in Table.tsx, pageRecords in
\* the progressive table) holds exactly the elements at indices
\* [(p-1)*10, p*10) of the sorted/filtered sequence; Table.tsx displays the
\* slice and the progressive table its first min(displayCount, length)
\* elements.
C7_PageSlice ==
    LET rows == currentRecords
        page == pageRecords
        sorted == sortedData
    IN  /\ IsPage(page, sorted, currentPage)
        /\ Len(rows) = IF progressive THEN Min(displayCount, Len(page))
                       ELSE Len(page)
        /\ \A j \in 1..Len(rows) : rows[j] = page[j]

\* A later page is shown, with fewer rows than a page holds.
C7_Witness ==
    /\ currentPage = 2
    /\ Idle
    /\ LET page == pageRecords
       IN  Len(page) > 0 /\ Len(page) < recordsPerPage

\* C8: whenever the filtered sequence is non-empty, the page slice shown is
\* non-empty.
C8_SliceNonEmpty == Len(filteredData) > 0 => Len(pageRecords) > 0

\* a is a subsequence of b: from position i of a and j of b on
RECURSIVE IsSubsequenceFrom(_, _, _, _)
IsSubsequenceFrom(a, b, i, j) ==
    IF i > Len(a) THEN TRUE
    ELSE IF j > Len(b) THEN FALSE
    ELSE IF a[i] = b[j] THEN IsSubsequenceFrom(a, b, i + 1, j + 1)
    ELSE IsSubsequenceFrom(a, b, i, j + 1)

\* C9: the filtered sequence is a subsequence of the store: store records
\* only, each at most once, in the store's relative order.
C9_FilteredIsSubsequence == IsSubsequenceFrom(filteredData, records, 1, 1)

\* A filter is set that passes two or more records and not all of them.
C9_Witness ==
    /\ Len(filteredData) >= 2
    /\ Len(filteredData) < Len(records)

\* C10: with status filter ALL, empty search and no date bounds the filtered
\* sequence is the store.
C10_NoFilterIsIdentity ==
    (filterStatus = "ALL" /\ searchName = <<>> /\ dateFrom = <<>> /\ dateTo = <<>>)
        => filteredData = records

\* No filter is set, on a store that a status update has changed and that
\* holds a date parseDate cannot read.
C10_Witness ==
    /\ filterStatus = "ALL" /\ searchName = <<>>
    /\ dateFrom = <<>> /\ dateTo = <<>>
    /\ \E i \in 1..Len(records) : records[i].about.status # DataStatus(i)
    /\ \E i \in 1..Len(records) : ~parseDate(records[i].details.date).valid

\* The position in seq of the record with this id
PositionOf(seq, id) == CHOOSE k \in 1..Len(seq) : seq[k].id = id

\* C11: for every sort field and both directions, two records whose sort
\* keys are equal (the compare function gives 0 for them) stand in the
\* sorted sequence in the same relative order as in the filtered sequence.
C11_SortStable ==
    LET filtered == filteredData
        sorted == Sort(filtered, sortField, sortDirection, sortEngine)
        keys == [i \in 1..Len(filtered) |-> SortKey(filtered[i], sortField)]
    IN  sortField # null =>
          \A i, j \in 1..Len(filtered) :
             (i < j /\ compareKeys(keys[i], keys[j], sortField,
                                   sortDirection) = Num(0))
                => PositionOf(sorted, filtered[i].id)
                     < PositionOf(sorted, filtered[j].id)

\* seq last element first
Reversed(seq) == [k \in 1..Len(seq) |-> seq[Len(seq) + 1 - k]]

\* C12: when the table is sorted by date and the records of the filtered
\* sequence have pairwise distinct dates, the sequence sorted by date
\* descending is exactly the reverse of the one sorted by date ascending.
C12_DateDescReversesAsc ==
    LET filtered == filteredData
        asc == Sort(filtered, "date", "asc", sortEngine)
        desc == Sort(filtered, "date", "desc", sortEngine)
    IN  ( /\ sortField = "date"
          /\ \A i, j \in 1..Len(filtered) :
                i < j => filtered[i].details.date # filtered[j].details.date )
        => desc = Reversed(asc)

\* The fields compared as strings
StringFields == {"name", "email", "invitedBy", "status"}

\* The string the sort reads from a record for a string field
FieldOf(r, field) ==
    CASE field = "name" -> r.about.name
      [] field = "email" -> r.about.email
      [] field = "invitedBy" -> r.details.invitedBy
      [] field = "status" -> StatusChars(r.about.status)

\* b holds the records of a, each as often as a does
IsPermutation(a, b) ==
    /\ Len(a) = Len(b)
    /\ \A i \in 1..Len(a) :
          Cardinality({k \in 1..Len(a) : a[k] = a[i]})
            = Cardinality({k \in 1..Len(b) : b[k] = a[i]})

\* C13: when the sort field is name, email, invitedBy or status, the sorted
\* sequence is a permutation of the filtered sequence, every adjacent pair
\* of it is in non-decreasing order of the field (by locale collation) for
\* direction asc and in non-increasing order for desc, and the desc
\* comparison of any two records is the negation of their asc comparison.
C13_StringSortOrdered ==
    LET filtered == filteredData
        sorted == Sort(filtered, sortField, sortDirection, sortEngine)
    IN  sortField \in StringFields =>
          /\ IsPermutation(filtered, sorted)
          /\ \A k \in 1..(Len(sorted) - 1) :
                LET c == localeCompare(FieldOf(sorted[k], sortField),
                                       FieldOf(sorted[k + 1], sortField))
                IN  IF sortDirection = "asc" THEN c <= 0 ELSE c >= 0
          /\ \A i, j \in 1..Len(filtered) :
                Val(compareFn(filtered[i], filtered[j], sortField, "desc"))
                  = 0 - Val(compareFn(filtered[i], filtered[j], sortField,
                                      "asc"))

\* The table is sorted by name, descending, and the sort has moved records.
C13_Witness ==
    /\ sortField = "name"
    /\ sortDirection = "desc"
    /\ Len(filteredData) >= 3
    /\ sortedData # filteredData

\* C14: when no sort field is selected the sorted sequence equals the
\* filtered sequence, element for element.
C14_NoSortIsPassThrough ==
    LET filtered == filteredData
        sorted == Sort(filtered, sortField, sortDirection, sortEngine)
    IN  sortField = null =>
          /\ Len(sorted) = Len(filtered)
          /\ \A k \in 1..Len(filtered) : sorted[k] = filtered[k]

\* No sort field is selected and a filter passes two or more records and
\* not all of them.
C14_Witness ==
    /\ sortField = null
    /\ Len(filteredData) >= 2
    /\ Len(filteredData) < Len(records)

\* C15: a click on the header of the active sort field flips sortDirection
\* between asc and desc and leaves sortField unchanged; a click on the
\* header of any other field sets sortField to that field and sortDirection
\* to asc, whatever the direction was; and nothing but a header click
\* changes sortField or sortDirection.
C15_HandleSortToggles ==
    [][ /\ \A field \in SortField :
              handleSort(field) =>
                IF sortField = field
                THEN /\ sortField' = sortField
                     /\ sortDirection' # sortDirection
                     /\ sortDirection' \in {"asc", "desc"}
                ELSE /\ sortField' = field
                     /\ sortDirection' = "asc"
        /\ (sortField' # sortField \/ sortDirection' # sortDirection)
              => \E field \in SortField : handleSort(field)
      ]_vars

\* A header has been clicked twice: the table is sorted descending.
C15_Witness == sortField \in SortField /\ sortDirection = "desc"

\* The ids of a store, in its order
IdsOf(recs) == [i \in 1..Len(recs) |-> recs[i].id]

\* C16: no step changes the ids of the store or their order (no record is
\* created, deleted, duplicated or reordered), and a step that changes the
\* store is a status update: it leaves the filter, the sort and the page as
\* they are, so filter, sort, clear-filters and pagination steps leave the
\* store unchanged.
C16_StoreIdsFixed ==
    [][ /\ IdsOf(records') = IdsOf(records)
        /\ records' # records =>
              /\ \E recordId \in {records[i].id : i \in 1..Len(records)},
                     newStatus \in ButtonStatuses :
                    handleStatusUpdate(recordId, newStatus)
              /\ Criteria' = Criteria
              /\ currentPage' = currentPage
              /\ displayCount' = displayCount
      ]_vars

\* The store has been changed, and a filter and a sort are set on it.
C16_Witness ==
    /\ \E i \in 1..Len(records) : records[i].about.status # DataStatus(i)
    /\ filterStatus # "ALL"
    /\ sortField \in SortField

\* The four values of the statistics cards
Statistics ==
    <<totalUsers, activeCount, inactivePercentage, blockedPercentage>>

\* C17: the total count, the ACTIVE count, the secondary-status percentage
\* and the BLOCKED percentage are computed over the whole store: a step that
\* changes the status filter, the search text, a date bound, the sort or
\* the current page leaves all four unchanged, and each count is the number
\* of records of the store with that status.
C17_StatisticsOverStore ==
    [][ /\ (Criteria' # Criteria \/ currentPage' # currentPage)
              => Statistics' = Statistics
        /\ totalUsers = Len(records)
        /\ activeCount =
              Cardinality({i \in 1..Len(records) :
                              records[i].about.status = "ACTIVE"})
      ]_vars

\* A filter hides ACTIVE records of the store and the table is sorted.
C17_Witness ==
    /\ sortField \in SortField
    /\ filterStatus # "ALL"
    /\ CountStatus(filteredData, "ACTIVE") < activeCount

\* The status of the record of the store with this id
StatusOf(recs, id) ==
    LET i == CHOOSE k \in 1..Len(recs) : recs[k].id = id
    IN  recs[i].about.status

\* C18: a status update that sets a record to BLOCKED adds exactly 1 to the
\* count of BLOCKED records when the record was not BLOCKED, and leaves the
\* count unchanged when it was.
C18_BlockedCountStep ==
    [][ \A recordId \in {records[i].id : i \in 1..Len(records)} :
          handleStatusUpdate(recordId, "BLOCKED") =>
            blockedCount' =
              IF StatusOf(records, recordId) = "BLOCKED"
              THEN blockedCount ELSE blockedCount + 1
      ]_vars

\* A record that was not BLOCKED in the data prop has been set to BLOCKED.
C18_Witness ==
    \E i \in 1..Len(records) :
        records[i].about.status = "BLOCKED" /\ DataStatus(i) # "BLOCKED"

\* C19: with an empty store both percentages are 0 (never NaN).
C19_EmptyStorePercentages ==
    Len(records) = 0 =>
        /\ inactivePercentage = <<"0">>
        /\ blockedPercentage = <<"0">>

\* C20: a record whose date string is not of the form
\* "<day> <3-letter month> <year>" is not in the filtered sequence whenever a
\* date bound is set, and passes the date predicate when none is set (it is
\* in the filtered sequence iff its status and name match).
C20_MalformedDateExcluded ==
    LET filtered == filteredData
        ids == {filtered[j].id : j \in 1..Len(filtered)}
    IN  \A i \in 1..Len(records) :
          LET r == records[i]
          IN  ~WellFormedDate(r.details.date) =>
                IF dateFrom # <<>> \/ dateTo # <<>>
                THEN r.id \notin ids
                ELSE r.id \in ids <=>
                       /\ (filterStatus = "ALL"
                             \/ r.about.status = filterStatus)
                       /\ includes(toLowerCase(r.about.name),
                                   toLowerCase(searchName))

\* C21: a step that changes the search text leaves currentPage equal to 1,
\* whatever page was shown before.
C21_SearchResetsPage ==
    [][searchName' # searchName => currentPage' = 1]_vars

\* A search text is set on a store of more than a page of records, and the
\* first page of the records it passes is shown.
C21_Witness ==
    /\ searchName # <<>>
    /\ currentPage = 1
    /\ Len(records) > recordsPerPage
    /\ Len(filteredData) >= 2

\* The calendar day a date string names, in either notation: "<day> <3-letter
\* month> <year>" or "dd/mm/yyyy"
DayNamed(d) ==
    IF WellFormedDate(d) THEN CalendarDay(d)
    ELSE LET parts == split(d, "/")
         IN  MakeDay(DigitPrefix(parts[3], 1, 0),
                     DigitPrefix(parts[2], 1, 0) - 1,
                     DigitPrefix(parts[1], 1, 0))

\* C22: every date string of the generated records has the form
\* "<day> <3-letter month> <year>", and with dateFrom = 2023-06-01 and
\* dateTo = 2023-06-30 (and no other filter) the filtered sequence holds
\* exactly the records dated in June 2023.
C22_GeneratedJuneFilter ==
    LET filtered == filteredData
    IN  ( /\ dateFrom = <<"2","0","2","3","-","0","6","-","0","1">>
          /\ dateTo = <<"2","0","2","3","-","0","6","-","3","0">>
          /\ filterStatus = "ALL" /\ searchName = <<>> )
        => /\ \A i \in 1..Len(records) :
                 WellFormedDate(records[i].details.date)
           /\ {filtered[j].id : j \in 1..Len(filtered)}
                = {records[i].id : i \in
                     {k \in 1..Len(records) :
                        /\ DayNamed(records[k].details.date)
                             >= MakeDay(2023, 5, 1)
                        /\ DayNamed(records[k].details.date)
                             <= MakeDay(2023, 5, 30)}}

\* C23: each user action is one transition: no rendered state has a sort or
\* filter criterion that changed in the render while currentPage is not
\* yet reset to 1 (the effect that resets it still waiting).
C23_NoStaleRender == effectCriteria => currentPage = 1

\* C24: in the progressive table displayCount is 5 or 10 in every state and
\* the rendered rows are the first min(displayCount, length) elements of
\* the page slice; a step that changes currentPage or a filter or sort
\* criterion leaves displayCount 5 or an effect waiting, the effects set
\* displayCount to 5 before the next user event, and clear-filters sets it
\* to 5 itself.
C24_ProgressiveDisplay ==
    /\ [](progressive =>
            /\ displayCount \in {5, 10}
            /\ LET page == pageRecords
                   rows == currentRecords
               IN  /\ Len(rows) = Min(displayCount, Len(page))
                   /\ \A k \in 1..Len(rows) : rows[k] = page[k])
    /\ [][progressive =>
            /\ (currentPage' # currentPage \/ Criteria' # Criteria)
                  => (displayCount' = 5 \/ ~Idle')
            /\ ~Idle => (RunEffects /\ displayCount' = 5)
            /\ handleClearFilters => displayCount' = 5
         ]_vars

\* Ten rows of a sorted page are rendered: more rows were loaded after the
\* last change of page or criterion.
C24_Witness ==
    /\ progressive
    /\ Idle
    /\ displayCount = 10
    /\ sortField \in SortField
    /\ Len(currentRecords) = 10

\* C25: in the progressive table, if end-reached events keep being
\* delivered (one is handled whenever the table stays able to load more
\* rows) and from some point on no other user action occurs, the rendered
\* rows eventually equal the whole page slice and stay so; and an
\* end-reached event changes the state only while they do not equal it.
C25_EndReachedCompletes ==
    /\ ( /\ []<>(~(Idle /\ CanLoadMore)) \/ []<><<handleEndReached>>_vars
         /\ <>[][handleEndReached \/ RunEffects]_vars )
          => <>[](currentRecords = pageRecords)
    /\ [][handleEndReached => currentRecords # pageRecords]_vars

\* End-reached events have loaded the second batch of a page of more than
\* five rows: the whole page slice is rendered.
C25_Witness ==
    /\ progressive
    /\ displayCount = recordsPerPage
    /\ Len(pageRecords) > 5
    /\ currentRecords = pageRecords

\* C26: the status badge of every rendered row names the record's status:
\* it reads "Active" only when the status is ACTIVE and "Blocked" only
\* when the status is BLOCKED, whatever status the stored record holds
\* (INVITED included).
C26_LabelNamesStatus ==
    LET rows == currentRecords
    IN  \A k \in 1..Len(rows) :
          LET status == rows[k].about.status
          IN  /\ StatusLabel(status) = "Active" => status = "ACTIVE"
              /\ StatusLabel(status) = "Blocked" => status = "BLOCKED"

====
